---- MODULE Spec2Model ----
(***************************************************************************)
(* Model of the real-time tracking core of server.js: the socket handlers  *)
(* 'location-update' and 'stop-completed', the HTTP stop completion, route *)
(* and driver creation, and the queries GET /api/locations and             *)
(* GET /api/driver/:id/route, over a MongoDB store accessed with Mongoose. *)
(*                                                                         *)
(* Every `await` of a handler is a point where other handlers run, so each *)
(* handler is a small process: one action per stretch of code between two  *)
(* awaits.  A database call either performs its effect or rejects (the     *)
(* store is unreachable), which sends the handler to its catch block.      *)
(***************************************************************************)
EXTENDS Integers, Sequences, FiniteSets, TLC

\* ------------------------------------------------------------------ bounds
MaxClock == 2        \* values of the server clock: 1..MaxClock
MaxReports == 2      \* 'location-update' events sent over the whole run
MaxRoutes == 1       \* routes created over the whole run
MaxStops == 2        \* stops of a created route: 1..MaxStops
MaxRequests == 2     \* stop completion requests over the whole run

\* ------------------------------------------------------------- value sets
Sockets == {"s1", "s2"}            \* socket.io session ids
DriverIds == {"d1", "d2"}          \* well-formed ObjectIds used as driver ids
NoId == "undefined"                \* data.driverId absent from the event
EmptyId == ""                      \* data.driverId = ''

\* JavaScript values a coordinate of an event can take.
Num(n) == [k |-> "num", v |-> n]       \* the number n
Str(n) == [k |-> "str", v |-> n]       \* the string holding the decimal n
Text == [k |-> "text", v |-> 0]        \* a non-numeric string such as 'abc'
NaN == [k |-> "nan", v |-> 0]          \* the number NaN
Undefined == [k |-> "undef", v |-> 0]  \* property absent

\* The events agents send: two well-formed positions of driver d1 and one
\* of driver d2, then on d1 a latitude out of range, a non-numeric latitude
\* and string-encoded coordinates, and a position without and with an empty
\* driver id.
Event(d, lat, lng) == [driverId |-> d, lat |-> lat, lng |-> lng]
PositionEvents ==
    { Event("d1", Num(10), Num(20)), Event("d1", Num(11), Num(21)),
      Event("d2", Num(10), Num(20)), Event("d1", Num(200), Num(20)),
      Event("d1", Text, Num(20)), Event("d1", Str(10), Str(20)),
      Event(NoId, Num(10), Num(20)), Event(EmptyId, Num(10), Num(20)) }

\* Routes.  RouteIds are the ObjectIds given to created routes.
RouteOrder == <<"r1", "r2">>        \* in the order they are handed out
RouteIds == {RouteOrder[k] : k \in 1..Len(RouteOrder)}
NoDate == 0                        \* completedAt not set
NoRoute == [exists |-> FALSE, driver |-> NoId, status |-> "pending", stops |-> <<>>]

\* Values of stopIndex in a completion request: an integer, or the property
\* name 'length'.
Idx(i) == [k |-> "int", v |-> i]
LengthKey == [k |-> "length", v |-> 0]

\* --------------------------------------------------------------- variables
VARIABLES
    now,        \* the server clock (Date.now())
    session,    \* session[s]: "new", "open" or "closed"
    chan,       \* chan[s]: events sent on socket s, not yet received (FIFO)
    sent,       \* number of events sent so far (also the next event id)
    handlers,   \* 'location-update' handlers suspended at an await
    finished,   \* outcome of the 'location-update' handlers that returned
    locations,  \* the Location collection, in insertion order
    drivers,    \* the Driver collection: drivers[d] = [isActive |-> ...]
    delivered,  \* delivered[s]: the events emitted to session s, in order
    routes,     \* the Route collection: routes[r] = [exists, driver, stops]
    creating,   \* POST /api/routes handlers after route.save(): suspended, or failed
    issued,     \* number of stop completion requests received so far
    requests,   \* stop completion handlers suspended at an await
    outcomes    \* outcome of the stop completion handlers that returned

vars == <<now, session, chan, sent, handlers, finished, locations, drivers,
          delivered, routes, creating, issued, requests, outcomes>>

\* The state of the position flow and the state of the route flow.
positionVars == <<chan, sent, handlers, finished, locations>>
routeVars == <<routes, creating, issued, requests, outcomes>>

\* ------------------------------------------------------- Mongoose casting
\* Number paths (lat, lng): numbers and numeric strings are stored as
\* numbers, an absent value stays absent, NaN and non-numeric strings are
\* cast errors.
NumberCastFails(x) == x.k \in {"text", "nan"}
CastNumber(x) == IF x.k = "str" THEN Num(x.v) ELSE x

\* ObjectId path (driverId): an absent value stays absent, '' is a cast error.
ObjectIdCastFails(d) == d = EmptyId

\* new Location({driverId, lat, lng}): the document as it will be written.
\* timestamp is the schema default Date.now, taken when the document is
\* constructed.  obs and id are history: the time the agent observed the
\* position and the number of the event; the program reads neither.
NewLocation(m, t) ==
    [driverId |-> m.ev.driverId, lat |-> CastNumber(m.ev.lat),
     lng |-> CastNumber(m.ev.lng), timestamp |-> t, obs |-> m.obs, id |-> m.id]

\* location.save() runs validation first; a cast error rejects the save.
LocationInvalid(ev) ==
    \/ ObjectIdCastFails(ev.driverId)
    \/ NumberCastFails(ev.lat)
    \/ NumberCastFails(ev.lng)

\* The payload of the 'driver-location' broadcast: the event's own values.
DriverLocation(h, t) ==
    [type |-> "driver-location", driverId |-> h.ev.driverId,
     lat |-> h.ev.lat, lng |-> h.ev.lng, timestamp |-> t, obs |-> h.obs,
     id |-> h.id, from |-> h.sock]

\* socket.broadcast.emit: every open session except the sender's.
EveryOpenSocket(s) == {o \in DOMAIN session : session[o] = "open"}
BroadcastTargets(s) == {o \in DOMAIN session : session[o] = "open" /\ o # s}
Broadcast(s, msg) ==
    [o \in DOMAIN delivered |->
        IF o \in BroadcastTargets(s) THEN Append(delivered[o], msg)
        ELSE delivered[o]]

\* ------------------------------------------------ GET /api/locations query
RECURSIVE Perms(_)
Perms(S) ==
    IF S = {} THEN {<<>>}
    ELSE UNION { {<<x>> \o p : p \in Perms(S \ {x})} : x \in S }

\* { $sort: { timestamp: -1 } }: the order of documents with equal
\* timestamps is not determined, so every such order is a possible outcome.
SortByTimestampDesc(locs) ==
    { p \in Perms(1..Len(locs)) :
        \A i \in 1..(Len(p) - 1) :
            locs[p[i]].timestamp >= locs[p[i + 1]].timestamp }

\* { $group: { _id: '$driverId', lat: {$first}, lng: {$first}, ... } }
GroupIds(locs) == {locs[i].driverId : i \in 1..Len(locs)}
FirstOf(locs, p, d) ==
    LET i == CHOOSE i \in 1..Len(p) :
                 /\ locs[p[i]].driverId = d
                 /\ \A j \in 1..(i - 1) : locs[p[j]].driverId # d
    IN  locs[p[i]]
GroupEntry(doc) ==
    [_id |-> doc.driverId, lat |-> doc.lat, lng |-> doc.lng,
     timestamp |-> doc.timestamp, obs |-> doc.obs, id |-> doc.id]
\* A pipeline without the $group stage: one entry per document.
EveryDocument(locs, p) == {GroupEntry(locs[p[i]]) : i \in 1..Len(p)}
GroupByDriver(locs, p) ==
    {GroupEntry(FirstOf(locs, p, d)) : d \in GroupIds(locs)}

\* The possible results of the aggregation over the collection: the body of
\* the response of GET /api/locations.
Aggregate(locs) == {GroupByDriver(locs, p) : p \in SortByTimestampDesc(locs)}

\* ------------------------------------------------------------ environment
Tick ==
    /\ now < MaxClock
    /\ now' = now + 1
    /\ UNCHANGED <<session, chan, sent, handlers, finished, locations,
                   drivers, delivered,
                   routeVars>>

\* An agent observes its position and sends it on socket s.
Send(s, e) ==
    /\ session[s] = "open"
    /\ sent < MaxReports
    /\ sent' = sent + 1
    /\ chan' = [chan EXCEPT ![s] =
                    Append(@, [id |-> sent + 1, ev |-> e, obs |-> now])]
    /\ UNCHANGED <<now, session, handlers, finished, locations, drivers,
                   delivered,
                   routeVars>>

\* ------------------------------------------------------------ connections
Connect(s) ==
    /\ session[s] = "new"
    /\ session' = [session EXCEPT ![s] = "open"]
    /\ UNCHANGED <<now, chan, sent, handlers, finished, locations, drivers,
                   delivered,
                   routeVars>>

\* What the closed connection had not delivered to the server is lost.
Disconnect(s) ==
    /\ session[s] = "open"
    /\ session' = [session EXCEPT ![s] = "closed"]
    /\ chan' = [chan EXCEPT ![s] = <<>>]
    /\ UNCHANGED <<now, sent, handlers, finished, locations, drivers,
                   delivered,
                   routeVars>>

\* -------------------------------------------- socket.on('location-update')
\* The validity of a position event as the specification defines it: the
\* agent id is present and non-empty, and both coordinates are numbers (or
\* strings holding numbers) within range.
Numeric(x) == x.k \in {"num", "str"}
InRange(x, lo, hi) == Numeric(x) /\ x.v >= lo /\ x.v <= hi
ValidPosition(e) ==
    /\ e.driverId \notin {NoId, EmptyId}
    /\ InRange(e.lat, -90, 90)
    /\ InRange(e.lng, -180, 180)

\* The handler returns.  valid and why are history: whether the event
\* was a valid position, and how the handler ended ("done", "cast" for a
\* validation error of save(), "store" for a rejected database call,
\* "coords" and "throw" for the early exits of the replacement handler).
Finish(h, stored, emitted, why) ==
    finished' = finished \cup
        {[id |-> h.id, valid |-> ValidPosition(h.ev), stored |-> stored,
          emitted |-> emitted, why |-> why]}

\* The handler starts: it builds the document and calls save().
LocationUpdate(s) ==
    /\ session[s] = "open"
    /\ chan[s] # <<>>
    /\ LET m == Head(chan[s]) IN
        handlers' = handlers \cup
            {[id |-> m.id, sock |-> s, ev |-> m.ev, obs |-> m.obs,
              doc |-> NewLocation(m, now), pc |-> "save"]}
    /\ chan' = [chan EXCEPT ![s] = Tail(@)]
    /\ UNCHANGED <<now, session, sent, finished, locations, drivers,
                   delivered,
                   routeVars>>

\* A write that keeps the last report only: the collection is replaced.
KeepOnlyLast(h) == <<h.doc>>
\* A write that keeps one document per driver: it replaces the driver's.
UpsertLocation(h) ==
    IF \E i \in 1..Len(locations) : locations[i].driverId = h.doc.driverId
    THEN [i \in 1..Len(locations) |->
            IF locations[i].driverId = h.doc.driverId THEN h.doc
            ELSE locations[i]]
    ELSE Append(locations, h.doc)
\* The write that location.save() performs.
InsertLocation(h) == Append(locations, h.doc)

\* await location.save() inserts the document.
SaveLocation(h) ==
    /\ h \in handlers /\ h.pc = "save"
    /\ ~LocationInvalid(h.ev)
    /\ locations' = InsertLocation(h)
    /\ handlers' = (handlers \ {h}) \cup {[h EXCEPT !.pc = "update"]}
    /\ UNCHANGED <<now, session, chan, sent, finished, drivers, delivered,
                   routeVars>>

\* await location.save() rejects with a validation error: catch block.
SaveLocationInvalid(h) ==
    /\ h \in handlers /\ h.pc = "save"
    /\ LocationInvalid(h.ev)
    /\ handlers' = handlers \ {h}
    /\ Finish(h, FALSE, FALSE, "cast")
    /\ UNCHANGED <<now, session, chan, sent, locations, drivers, delivered,
                   routeVars>>

\* await location.save() rejects because the store is unreachable.
SaveLocationFails(h) ==
    /\ h \in handlers /\ h.pc = "save"
    /\ ~LocationInvalid(h.ev)
    /\ handlers' = handlers \ {h}
    /\ Finish(h, FALSE, FALSE, "store")
    /\ UNCHANGED <<now, session, chan, sent, locations, drivers, delivered,
                   routeVars>>

\* await Driver.findByIdAndUpdate(driverId, { isActive: true })
SetActive(d) ==
    IF d \in DOMAIN drivers /\ drivers[d].exists
    THEN [drivers EXCEPT ![d].isActive = TRUE]
    ELSE drivers

UpdateDriver(h) ==
    /\ h \in handlers /\ h.pc = "update"
    /\ drivers' = SetActive(h.ev.driverId)
    /\ handlers' = (handlers \ {h}) \cup {[h EXCEPT !.pc = "emit"]}
    /\ UNCHANGED <<now, session, chan, sent, finished, locations, delivered,
                   routeVars>>

\* findByIdAndUpdate rejects: the catch block logs, nothing is broadcast.
UpdateDriverFails(h) ==
    /\ h \in handlers /\ h.pc = "update"
    /\ handlers' = handlers \ {h}
    /\ Finish(h, TRUE, FALSE, "store")
    /\ UNCHANGED <<now, session, chan, sent, locations, drivers, delivered,
                   routeVars>>

\* socket.broadcast.emit('driver-location', ...), then the handler returns.
EmitDriverLocation(h) ==
    /\ h \in handlers /\ h.pc = "emit"
    /\ delivered' = Broadcast(h.sock, DriverLocation(h, now))
    /\ handlers' = handlers \ {h}
    /\ Finish(h, TRUE, TRUE, "done")
    /\ UNCHANGED <<now, session, chan, sent, locations, drivers,
                   routeVars>>

\* ----------------------------------------------- app.get('/api/locations')
\* The handler only reads: its response is a function of the collection.
LatestAll(locs) == Aggregate(locs)

\* ------------------------------------------------ app.post('/api/routes')
\* addresses.map(...): n stops, in the order given, all pending, without
\* completedAt.  lat and lng stand for the mock coordinates drawn for the
\* stop; no handler reads them.
NewStops(n) ==
    [k \in 1..n |->
        [address |-> k, lat |-> 40 + k, lng |-> k - 74, sequenceOrder |-> k - 1,
         status |-> "pending", completedAt |-> NoDate]]

FreeRouteIds == {r \in RouteIds : ~routes[r].exists}
NextRouteId ==
    RouteOrder[CHOOSE k \in 1..Len(RouteOrder) :
                   /\ RouteOrder[k] \in FreeRouteIds
                   /\ \A j \in 1..(k - 1) : RouteOrder[j] \notin FreeRouteIds]

\* new Route({...}) and await route.save(): the route is inserted under a
\* fresh id, while fewer than max routes exist.  failed is history: it
\* records that the handler ended in its catch block.
CreateRouteWithin(d, n, max) ==
    /\ FreeRouteIds # {}
    /\ Cardinality(RouteIds \ FreeRouteIds) < max
    /\ LET r == NextRouteId IN
        /\ routes' = [routes EXCEPT ![r] =
                        [exists |-> TRUE, driver |-> d, status |-> "pending",
                         stops |-> NewStops(n)]]
        /\ creating' = creating \cup
                          {[routeId |-> r, driverId |-> d, failed |-> FALSE]}
    /\ UNCHANGED <<now, session, drivers, delivered, positionVars, issued,
                   requests, outcomes>>

CreateRoute(d, n) == CreateRouteWithin(d, n, MaxRoutes)

\* await Driver.findByIdAndUpdate(driverId, { currentRoute: route._id })
AssignRoute(c) ==
    /\ c \in creating /\ ~c.failed
    /\ drivers' = IF drivers[c.driverId].exists
                  THEN [drivers EXCEPT ![c.driverId].currentRoute = c.routeId]
                  ELSE drivers
    /\ creating' = creating \ {c}
    /\ UNCHANGED <<now, session, delivered, positionVars, routes, issued,
                   requests, outcomes>>

\* findByIdAndUpdate rejects: the route stays, the driver is not updated.
AssignRouteFails(c) ==
    /\ c \in creating /\ ~c.failed
    /\ creating' = (creating \ {c}) \cup {[c EXCEPT !.failed = TRUE]}
    /\ UNCHANGED <<now, session, drivers, delivered, positionVars, routes,
                   issued, requests, outcomes>>

\* --------------------------------- stop completion: socket and HTTP entry
\* route.stops[stopIndex] on an array of n stops: the stop for an integer in
\* [0, n), the number n for 'length', undefined for everything else.
IsStop(stops, i) == i.k = "int" /\ i.v >= 0 /\ i.v < Len(stops)
Truthy(stops, i) == IsStop(stops, i) \/ (i.k = "length" /\ Len(stops) > 0)

\* doc is the stops array of the route document the handler holds once
\* findById has returned.
NewRequest(via, s, r, i) ==
    [id |-> issued + 1, via |-> via, sock |-> s, routeId |-> r,
     stopIndex |-> i, pc |-> "find", found |-> FALSE, loaded |-> "none",
     setStatus |-> FALSE, setAt |-> FALSE, at |-> NoDate, doc |-> <<>>]

\* socket.on('stop-completed'): the handler starts and calls findById.
StopCompleted(s, r, i) ==
    /\ session[s] = "open"
    /\ issued < MaxRequests
    /\ issued' = issued + 1
    /\ requests' = requests \cup {NewRequest("socket", s, r, i)}
    /\ UNCHANGED <<now, session, drivers, delivered, positionVars, routes,
                   creating, outcomes>>

\* app.post('/api/routes/:routeId/stops/:stopIndex/complete')
PostComplete(r, i) ==
    /\ issued < MaxRequests
    /\ issued' = issued + 1
    /\ requests' = requests \cup {NewRequest("http", NoId, r, i)}
    /\ UNCHANGED <<now, session, drivers, delivered, positionVars, routes,
                   creating, outcomes>>

\* The handler returns.  result is the HTTP status, or for the socket entry
\* "emit" (a 'stop-update' was broadcast), "none" (nothing done) or
\* "caught" (the catch block logged an error).
\* saw: the status each stop of the route had when the handler loaded it.
Outcome(q, result) ==
    [id |-> q.id, via |-> q.via, routeId |-> q.routeId,
     stopIndex |-> q.stopIndex, found |-> q.found, loaded |-> q.loaded,
     wrote |-> (result \in {"emit", "200"}) /\ (q.setStatus \/ q.setAt),
     saw |-> [k \in 1..Len(q.doc) |-> q.doc[k].status],
     result |-> result]

Return(q, result) ==
    /\ requests' = requests \ {q}
    /\ outcomes' = outcomes \cup {Outcome(q, result)}

\* await Route.findById(routeId) returns the route and stops[stopIndex] is
\* truthy: the handler sets status and completedAt on its copy of the route
\* and calls route.save().  A path is written by save() when the assignment
\* changed its value; assigning to a property of a number changes nothing.
LoadRoute(q) ==
    /\ q \in requests /\ q.pc = "find"
    /\ q.routeId \in RouteIds
    /\ routes[q.routeId].exists
    /\ Truthy(routes[q.routeId].stops, q.stopIndex)
    /\ LET stops == routes[q.routeId].stops
           isStop == IsStop(stops, q.stopIndex)
           stop == stops[q.stopIndex.v + 1]
       IN  requests' = (requests \ {q}) \cup
               {[q EXCEPT !.pc = "save",
                          !.found = isStop,
                          !.loaded = IF isStop THEN stop.status ELSE "none",
                          !.setStatus = isStop /\ stop.status # "completed",
                          !.setAt = isStop /\ stop.completedAt # now,
                          !.at = now,
                          !.doc = stops]}
    /\ UNCHANGED <<now, session, drivers, delivered, positionVars, routes,
                   creating, issued, outcomes>>

\* findById returns null, or stops[stopIndex] is undefined: the socket
\* handler does nothing, the HTTP handler answers 404.
RouteOrStopNotFound(q) ==
    /\ q \in requests /\ q.pc = "find"
    /\ q.routeId \in RouteIds
    /\ ~(routes[q.routeId].exists /\ Truthy(routes[q.routeId].stops, q.stopIndex))
    /\ Return(q, IF q.via = "http" THEN "404" ELSE "none")
    /\ UNCHANGED <<now, session, drivers, delivered, positionVars, routes,
                   creating, issued>>

\* findById rejects (the store is unreachable): catch block.
FindRouteFails(q) ==
    /\ q \in requests /\ q.pc = "find"
    /\ Return(q, IF q.via = "http" THEN "500" ELSE "caught")
    /\ UNCHANGED <<now, session, drivers, delivered, positionVars, routes,
                   creating, issued>>

\* An update that toggles the stop: a completed stop goes back to pending.
WriteToggle(stop, q) ==
    IF stop.status = "completed"
    THEN [stop EXCEPT !.status = "pending", !.completedAt = NoDate]
    ELSE [stop EXCEPT !.status = "completed", !.completedAt = q.at]
\* An update that carries the status and leaves completedAt out.
WriteStatusOnly(stop, q) ==
    [stop EXCEPT !.status = IF q.setStatus THEN "completed" ELSE @]
\* The update route.save() sends: $set of the paths the handler changed.
WriteStop(stop, q) ==
    [stop EXCEPT !.status = IF q.setStatus THEN "completed" ELSE @,
                 !.completedAt = IF q.setAt THEN q.at ELSE @]

\* An update that writes the whole stops array the handler holds.
UpdateWholeArray(q) ==
    IF q.found
    THEN [routes EXCEPT ![q.routeId].stops =
            [q.doc EXCEPT ![q.stopIndex.v + 1] = WriteStop(@, q)]]
    ELSE routes
\* An update that marks every stop of the route.
UpdateEveryStop(q) ==
    IF q.found
    THEN [routes EXCEPT ![q.routeId].stops =
            [k \in 1..Len(@) |-> WriteStop(@[k], q)]]
    ELSE routes
\* The Route collection after the update of route.save(): one stop of one
\* route is written, and nothing at all when no path was changed.
UpdateRoute(q) ==
    IF q.found
    THEN [routes EXCEPT ![q.routeId].stops[q.stopIndex.v + 1] = WriteStop(@, q)]
    ELSE routes

\* await route.save()
SaveRoute(q) ==
    /\ q \in requests /\ q.pc = "save"
    /\ routes' = UpdateRoute(q)
    /\ requests' = (requests \ {q}) \cup {[q EXCEPT !.pc = "reply"]}
    /\ UNCHANGED <<now, session, drivers, delivered, positionVars, creating,
                   issued, outcomes>>

\* route.save() rejects: catch block.
SaveRouteFails(q) ==
    /\ q \in requests /\ q.pc = "save"
    /\ Return([q EXCEPT !.setStatus = FALSE, !.setAt = FALSE],
              IF q.via = "http" THEN "500" ELSE "caught")
    /\ UNCHANGED <<now, session, drivers, delivered, positionVars, routes,
                   creating, issued>>

\* The payload of the 'stop-update' broadcast.
StopUpdate(q) ==
    [type |-> "stop-update", routeId |-> q.routeId, stopIndex |-> q.stopIndex,
     status |-> "completed", from |-> q.sock]

\* socket.broadcast.emit('stop-update', ...), then the handler returns.
EmitStopUpdate(q) ==
    /\ q \in requests /\ q.pc = "reply" /\ q.via = "socket"
    /\ delivered' = Broadcast(q.sock, StopUpdate(q))
    /\ Return(q, "emit")
    /\ UNCHANGED <<now, session, drivers, positionVars, routes, creating,
                   issued>>

\* res.json({ success: true })
RespondSuccess(q) ==
    /\ q \in requests /\ q.pc = "reply" /\ q.via = "http"
    /\ Return(q, "200")
    /\ UNCHANGED <<now, session, drivers, delivered, positionVars, routes,
                   creating, issued>>

\* ---------------------------------------------------------- specification
Init ==
    /\ now = 1
    /\ session = [s \in Sockets |-> "new"]
    /\ chan = [s \in Sockets |-> <<>>]
    /\ sent = 0
    /\ handlers = {}
    /\ finished = {}
    /\ locations = <<>>
    /\ drivers = [d \in DriverIds |->
                    [exists |-> TRUE, isActive |-> FALSE, currentRoute |-> NoId]]
    /\ delivered = [s \in Sockets |-> <<>>]
    /\ routes = [r \in RouteIds |-> NoRoute]
    /\ creating = {}
    /\ issued = 0
    /\ requests = {}
    /\ outcomes = {}

Next ==
    \/ Tick
    \/ \E s \in Sockets : Connect(s)
    \/ \E s \in Sockets : Disconnect(s)
    \/ \E s \in Sockets, e \in PositionEvents : Send(s, e)
    \/ \E s \in Sockets : LocationUpdate(s)
    \/ \E h \in handlers : SaveLocation(h)
    \/ \E h \in handlers : SaveLocationInvalid(h)
    \/ \E h \in handlers : SaveLocationFails(h)
    \/ \E h \in handlers : UpdateDriver(h)
    \/ \E h \in handlers : UpdateDriverFails(h)
    \/ \E h \in handlers : EmitDriverLocation(h)

Spec == Init /\ [][Next]_vars

\* The route flow, started with both sessions connected.
StopIndexes == {Idx(i) : i \in 0..MaxStops} \cup {LengthKey}

StopInit ==
    /\ now = 1
    /\ session = [s \in Sockets |-> "open"]
    /\ chan = [s \in Sockets |-> <<>>]
    /\ sent = 0
    /\ handlers = {}
    /\ finished = {}
    /\ locations = <<>>
    /\ drivers = [d \in DriverIds |->
                    [exists |-> TRUE, isActive |-> FALSE, currentRoute |-> NoId]]
    /\ delivered = [s \in Sockets |-> <<>>]
    /\ routes = [r \in RouteIds |-> NoRoute]
    /\ creating = {}
    /\ issued = 0
    /\ requests = {}
    /\ outcomes = {}

StopNext ==
    \/ Tick
    \/ \E d \in DriverIds, n \in 1..MaxStops : CreateRoute(d, n)
    \/ \E c \in creating : AssignRoute(c)
    \/ \E c \in creating : AssignRouteFails(c)
    \/ \E s \in Sockets, r \in RouteIds, i \in StopIndexes :
            StopCompleted(s, r, i)
    \/ \E r \in RouteIds, i \in StopIndexes : PostComplete(r, i)
    \/ \E q \in requests : LoadRoute(q)
    \/ \E q \in requests : RouteOrStopNotFound(q)
    \/ \E q \in requests : FindRouteFails(q)
    \/ \E q \in requests : SaveRoute(q)
    \/ \E q \in requests : SaveRouteFails(q)
    \/ \E q \in requests : EmitStopUpdate(q)
    \/ \E q \in requests : RespondSuccess(q)

StopSpec == StopInit /\ [][StopNext]_vars

\* ======================================================== position claims
\* All 'location-update' handlers have returned and no event is in flight.
Quiescent == handlers = {} /\ \A s \in Sockets : chan[s] = <<>>
\* No handler met a rejected database call: each stored and broadcast.
NoFailure == \A f \in finished : f.stored /\ f.emitted

Stored == {locations[i] : i \in 1..Len(locations)}
StoredAgents == {doc.driverId : doc \in Stored}
ReportsOf(d) == {i \in 1..Len(locations) : locations[i].driverId = d}
MaxObservedAt(d) ==
    CHOOSE t \in {locations[i].obs : i \in ReportsOf(d)} :
        \A i \in ReportsOf(d) : locations[i].obs <= t
\* C1: once every handler has finished (none of them failed), GET
\* /api/locations returns for each agent the position of a report with the
\* maximum observedAt among its stored reports, whatever the arrival order
\* of the events was.  (Which of several reports with the same observedAt
\* is returned is left open here.)
C1_LatestIsMaxObservedAt ==
    (Quiescent /\ NoFailure) =>
        \A snap \in LatestAll(locations) :
            \A e \in snap :
                \E i \in ReportsOf(e._id) :
                    /\ locations[i].obs = MaxObservedAt(e._id)
                    /\ locations[i].lat = e.lat
                    /\ locations[i].lng = e.lng

\* C2: the snapshot of GET /api/locations has at most one entry per agent
\* id and exactly one entry for every agent id with a stored report, so it
\* has as many entries as there are agents with a stored report.
C2_OneEntryPerAgent ==
    \A snap \in LatestAll(locations) :
        /\ \A e1, e2 \in snap : e1._id = e2._id => e1 = e2
        /\ {e._id : e \in snap} = StoredAgents
        /\ Cardinality(snap) = Cardinality(StoredAgents)

\* Two agents sent one position each, both handlers have finished, and the
\* snapshot holds the two entries.
C2_Witness ==
    /\ Quiescent
    /\ Len(locations) = 2
    /\ Cardinality(StoredAgents) = 2
    /\ \E snap \in LatestAll(locations) : Cardinality(snap) = 2

\* A stored report that passes the same validation.
ValidReport(doc) ==
    /\ doc.driverId \notin {NoId, EmptyId}
    /\ InRange(doc.lat, -90, 90)
    /\ InRange(doc.lng, -180, 180)

DriverLocations(s) ==
    {delivered[s][j] : j \in {j \in 1..Len(delivered[s]) :
                                 delivered[s][j].type = "driver-location"}}

\* C6: a position event that fails validation (e.g. lat = 200) never
\* reaches the stores or the broadcast path: no report is stored for it, it
\* never appears in the snapshot, no 'driver-location' is emitted for it.
C6_InvalidNeverStoredNorBroadcast ==
    /\ \A doc \in Stored : ValidReport(doc)
    /\ \A snap \in LatestAll(locations) :
        \A e \in snap : InRange(e.lat, -90, 90) /\ InRange(e.lng, -180, 180)
    /\ \A s \in Sockets : \A m \in DriverLocations(s) : ValidPosition(m)

\* C9: for one agent id and one observer, the 'driver-location' deltas
\* arrive in non-decreasing observedAt order: no position is delivered after
\* a different position of the same agent that was observed later.
C9_DeltasInObservedOrder ==
    \A s \in Sockets :
        \A i, j \in 1..Len(delivered[s]) :
            (/\ i < j
             /\ delivered[s][i].type = "driver-location"
             /\ delivered[s][j].type = "driver-location"
             /\ delivered[s][i].driverId = delivered[s][j].driverId
             /\ <<delivered[s][i].lat, delivered[s][i].lng>>
                    # <<delivered[s][j].lat, delivered[s][j].lng>>)
            => delivered[s][i].obs <= delivered[s][j].obs

\* C10: every report that has been stored is broadcast: a handler that
\* stored its report does not return without emitting 'driver-location'.
C10_StoredIsBroadcast ==
    \A f \in finished : f.stored => f.emitted

\* =========================================================== route claims
StoredStops == {<<r, k>> \in RouteIds \X (1..MaxStops) : k <= Len(routes[r].stops)}
StopAt(rk) == routes[rk[1]].stops[rk[2]]

\* The requests for stop k (index k - 1) of route r that returned success.
Succeeded(o) == o.result \in {"emit", "200"}
CompletionsOf(rk) ==
    {o \in outcomes :
        Succeeded(o) /\ o.routeId = rk[1] /\ o.stopIndex = Idx(rk[2] - 1)}

\* C3: once a completion of a stop has succeeded and the stop is stored as
\* completed with timestamp t, every later completion of the same stop
\* leaves its completedAt equal to t.
C3_CompletedAtKept ==
    [][\A rk \in StoredStops :
          (CompletionsOf(rk) # {} /\ StopAt(rk).status = "completed") =>
              routes'[rk[1]].stops[rk[2]].completedAt = StopAt(rk).completedAt]_vars

\* C4: over any sequence of 'stop-completed' events at most one 'stop-update'
\* is broadcast per (routeId, stopIndex).
C4_OneStopUpdatePerStop ==
    \A rk \in StoredStops :
        Cardinality({o \in CompletionsOf(rk) : o.result = "emit"}) <= 1

\* C5: of several completion requests for one stop running concurrently,
\* exactly one observes the stop pending and completes it; no two requests
\* both load the stop as pending and both write and report the completion.
C5_OneFirstCompletion ==
    \A rk \in StoredStops :
        Cardinality({o \in CompletionsOf(rk) : o.loaded = "pending"}) <= 1

\* C7: a completion request whose route is unknown or whose stopIndex is not
\* an integer in [0, len(stops)) fails: it writes nothing, emits no
\* 'stop-update' and the HTTP entry point does not report success.
C7_BadRequestFails ==
    \A o \in outcomes : ~o.found => (~Succeeded(o) /\ ~o.wrote)

\* C8: in every stored state of every route, for every stop, completedAt is
\* set if and only if status = completed.
C8_CompletedAtIffCompleted ==
    \A rk \in StoredStops :
        (StopAt(rk).completedAt # NoDate) <=> (StopAt(rk).status = "completed")

\* A stop is stored as completed after two requests that both loaded it as
\* pending have written it.
C8_Witness ==
    \E rk \in StoredStops :
        /\ StopAt(rk).status = "completed"
        /\ StopAt(rk).completedAt # NoDate
        /\ Cardinality({o \in CompletionsOf(rk) :
                            o.loaded = "pending" /\ o.wrote}) = 2

\* C11: every first completion of a stop (a request that loaded the stop
\* as pending and stored it as completed), by the socket event or by the
\* HTTP POST, hands a 'stop-update' for that stop to the broadcast path.
C11_FirstCompletionIsBroadcast ==
    \A o \in outcomes :
        (o.found /\ o.loaded = "pending" /\ o.wrote /\ Succeeded(o)) =>
            o.result = "emit"

StopUpdates(s) ==
    {delivered[s][j] : j \in {j \in 1..Len(delivered[s]) :
                                 delivered[s][j].type = "stop-update"}}

\* C12: a delta is broadcast only after the store write it reports:
\* every 'driver-location' delivered has a stored report with its agent id
\* and coordinates, every 'stop-update' delivered names a stop that is
\* stored as completed, and a handler whose write failed has emitted nothing.
C12_DeltaOnlyAfterWrite ==
    /\ \A s \in Sockets : \A m \in DriverLocations(s) :
        \E doc \in Stored :
            /\ doc.driverId = m.driverId
            /\ doc.lat = CastNumber(m.lat)
            /\ doc.lng = CastNumber(m.lng)
    /\ \A s \in Sockets : \A m \in StopUpdates(s) :
        /\ IsStop(routes[m.routeId].stops, m.stopIndex)
        /\ routes[m.routeId].stops[m.stopIndex.v + 1].status = "completed"
    /\ \A f \in finished : f.emitted => f.stored

\* ======================================================== fan-out claims
\* Three sessions, so that a delta has a sender, an observer that stays and
\* an observer that leaves.  The agents send two positions of d1, one of
\* d2 and one that save() rejects.
Observers == Sockets \cup {"s3"}
FanOutEvents ==
    { Event("d1", Num(10), Num(20)), Event("d1", Num(11), Num(21)),
      Event("d2", Num(10), Num(20)), Event("d1", Text, Num(20)) }

FanOutInit ==
    /\ now = 1
    /\ session = [s \in Observers |-> "new"]
    /\ chan = [s \in Observers |-> <<>>]
    /\ sent = 0
    /\ handlers = {}
    /\ finished = {}
    /\ locations = <<>>
    /\ drivers = [d \in DriverIds |->
                    [exists |-> TRUE, isActive |-> FALSE, currentRoute |-> NoId]]
    /\ delivered = [s \in Observers |-> <<>>]
    /\ routes = [r \in RouteIds |-> NoRoute]
    /\ creating = {}
    /\ issued = 0
    /\ requests = {}
    /\ outcomes = {}

FanOutNext ==
    \/ Tick
    \/ \E s \in Observers : Connect(s)
    \/ \E s \in Observers : Disconnect(s)
    \/ \E s \in Observers, e \in FanOutEvents : Send(s, e)
    \/ \E s \in Observers : LocationUpdate(s)
    \/ \E h \in handlers : SaveLocation(h)
    \/ \E h \in handlers : SaveLocationInvalid(h)
    \/ \E h \in handlers : SaveLocationFails(h)
    \/ \E h \in handlers : UpdateDriver(h)
    \/ \E h \in handlers : UpdateDriverFails(h)
    \/ \E h \in handlers : EmitDriverLocation(h)

FanOutSpec == FanOutInit /\ [][FanOutNext]_vars


\* The handler h emits in this step.
Emits(h) == h \in handlers /\ h.pc = "emit" /\ h \notin handlers'

\* No session that is not open is handed a delta: not one that has
\* disconnected, and not one that connects (nothing is replayed to it).
OnlyOpenSessionsReceive ==
    \A s \in DOMAIN session :
        session[s] # "open" => delivered'[s] = delivered[s]

\* The open sessions other than the sender's are handed every delta.
OpenObserversReceive ==
    \A h \in handlers :
        Emits(h) =>
            \A o \in DOMAIN session :
                (session[o] = "open" /\ o # h.sock) =>
                    delivered'[o] = Append(delivered[o], DriverLocation(h, now))

\* What GET /api/locations answers once a session has disconnected, to a
\* caller connected before or not: for every agent with a stored report,
\* whenever stored, its latest position, the report with the maximum
\* observedAt.
SnapshotIsCurrent ==
    (Quiescent /\ NoFailure /\ \E s \in DOMAIN session : session[s] = "closed") =>
        \A snap \in LatestAll(locations) :
            /\ {e._id : e \in snap} = StoredAgents
            /\ \A e \in snap :
                \E i \in ReportsOf(e._id) :
                    /\ locations[i].obs = MaxObservedAt(e._id)
                    /\ locations[i].lat = e.lat
                    /\ locations[i].lng = e.lng

\* C13: after an observer disconnects no delta emitted afterwards is
\* delivered to it, the other observers keep receiving every delta, and a
\* fresh connection that calls the snapshot query receives the current
\* latest position of every agent, reports stored while it was disconnected
\* included, with nothing replayed to it.
C13_DisconnectAndSnapshot ==
    [][/\ OnlyOpenSessionsReceive
       /\ OpenObserversReceive
       /\ SnapshotIsCurrent']_vars

\* The catch block of the completion handler ran: a database call rejected.
StoreFailed(o) == o.result \in {"500", "caught"}
\* The handler answered its caller with a failure (HTTP status 500); the
\* catch block of the socket handler answers nothing.
FailureReturned(o) == o.result = "500"

\* C14: when the store fails during the ingestion of a completion, the
\* failure is returned to the originating caller as an explicit failure
\* result, by the socket entry point as by the HTTP entry point.
C14_StoreFailureReturned ==
    \A o \in outcomes : StoreFailed(o) => FailureReturned(o)

\* C15: the position store is append-only: the stored reports only grow,
\* and no step changes the agent id, the coordinates or the timestamp of a
\* stored report or removes one.
C15_AppendOnly ==
    [][/\ Len(locations') >= Len(locations)
       /\ \A i \in 1..Len(locations) :
            /\ locations'[i].driverId = locations[i].driverId
            /\ locations'[i].lat = locations[i].lat
            /\ locations'[i].lng = locations[i].lng
            /\ locations'[i].timestamp = locations[i].timestamp]_vars

\* A second position of an agent has been stored at a later time, and the
\* first one is still in the store.
C15_Witness ==
    /\ Len(locations) = 2
    /\ locations[1].driverId = locations[2].driverId
    /\ locations[1].timestamp < locations[2].timestamp
    /\ <<locations[1].lat, locations[1].lng>> # <<locations[2].lat, locations[2].lng>>

\* The deltas handed to session s in this step.
Received(s) == SubSeq(delivered'[s], Len(delivered[s]) + 1, Len(delivered'[s]))

\* C16: a delta published for an event received on session S is delivered
\* to every other session connected at that moment and never back to S.
C16_ToEveryOtherSessionNotSender ==
    [][\A s \in DOMAIN session :
          \A j \in 1..Len(Received(s)) :
              LET m == Received(s)[j] IN
                  /\ m.from # s
                  /\ \A o \in DOMAIN session :
                        (session[o] = "open" /\ o # m.from) =>
                            Received(o) = <<m>>
                  /\ \A o \in DOMAIN session :
                        (session[o] # "open" \/ o = m.from) =>
                            Received(o) = <<>>]_vars

\* A delta sent by one session has reached the two other sessions, both
\* connected, and not the sender.
C16_Witness ==
    \E s \in DOMAIN session :
        /\ \A o \in DOMAIN session \ {s} :
            /\ session[o] = "open"
            /\ \E j \in 1..Len(delivered[o]) : delivered[o][j].from = s
        /\ Cardinality(DOMAIN session \ {s}) = 2
        /\ delivered[s] = <<>>
        /\ \E f \in finished : f.emitted

\* ===================================================== assignment claims
\* app.get('/api/driver/:id/route'): the body of the response, as the id of
\* the route it holds.  findById(id) returns null for an unknown driver;
\* populate('currentRoute') yields the route document, or null when the
\* driver has none or the id refers to no route.
NullRoute == "null"
GetDriverRoute(id) ==
    IF \/ ~drivers[id].exists
       \/ drivers[id].currentRoute = NoId
       \/ ~routes[drivers[id].currentRoute].exists
    THEN NullRoute
    ELSE drivers[id].currentRoute

\* Route creation and assignment alone, with as many routes as there are
\* ids, for a driver that exists (d1) and one that does not (d2).
AssignInit ==
    /\ now = 1
    /\ session = [s \in Sockets |-> "open"]
    /\ chan = [s \in Sockets |-> <<>>]
    /\ sent = 0
    /\ handlers = {}
    /\ finished = {}
    /\ locations = <<>>
    /\ drivers = [d \in DriverIds |->
                    [exists |-> d = "d1", isActive |-> FALSE,
                     currentRoute |-> NoId]]
    /\ delivered = [s \in Sockets |-> <<>>]
    /\ routes = [r \in RouteIds |-> NoRoute]
    /\ creating = {}
    /\ issued = 0
    /\ requests = {}
    /\ outcomes = {}

AssignNext ==
    \/ Tick
    \/ \E d \in DriverIds, n \in 1..MaxStops :
        CreateRouteWithin(d, n, Len(RouteOrder))
    \/ \E c \in creating : AssignRoute(c)
    \/ \E c \in creating : AssignRouteFails(c)

AssignSpec == AssignInit /\ [][AssignNext]_vars

\* The routes created for driver d, and the one created last: route ids
\* are handed out in the order of RouteOrder.
RoutesOf(d) == {r \in RouteIds : routes[r].exists /\ routes[r].driver = d}
CreatedBefore(r1, r2) ==
    \E i, j \in 1..Len(RouteOrder) :
        i < j /\ RouteOrder[i] = r1 /\ RouteOrder[j] = r2
LastCreated(d) ==
    CHOOSE r \in RoutesOf(d) : \A o \in RoutesOf(d) \ {r} : CreatedBefore(o, r)

\* C17: once every route creation has returned without failure,
\* GET /api/driver/:id/route returns the route most recently created for
\* the agent, and null exactly when the agent is unknown or has no route.
C17_RouteOfAgentIsLastCreated ==
    creating = {} =>
        \A d \in DriverIds :
            IF ~drivers[d].exists \/ RoutesOf(d) = {}
            THEN GetDriverRoute(d) = NullRoute
            ELSE GetDriverRoute(d) = LastCreated(d)

\* C18: the status of a stop is monotonic: a created stop is pending, and
\* once a stop is stored as completed it is completed in every later state,
\* with its completedAt still set; nothing returns it to pending.
C18_StatusMonotonic ==
    [][\A rk \in StoredStops :
          /\ StopAt(rk).status = "completed" =>
                /\ routes'[rk[1]].stops[rk[2]].status = "completed"
                /\ routes'[rk[1]].stops[rk[2]].completedAt # NoDate
          /\ \A r \in RouteIds :
                (~routes[r].exists /\ routes'[r].exists) =>
                    \A k \in 1..Len(routes'[r].stops) :
                        routes'[r].stops[k].status = "pending"]_vars

\* A stop that was loaded as completed has been written again by a second
\* request and is still completed.
C18_Witness ==
    \E rk \in StoredStops :
        /\ StopAt(rk).status = "completed"
        /\ \E o \in CompletionsOf(rk) : o.loaded = "completed" /\ o.wrote

\* ========================================================== frame claims
\* Two routes exist and are assigned: r1 of d1 with MaxStops stops, r2 of
\* d2 with one stop.  Completion requests arrive for both.
FrameInit ==
    /\ now = 1
    /\ session = [s \in Sockets |-> "open"]
    /\ chan = [s \in Sockets |-> <<>>]
    /\ sent = 0
    /\ handlers = {}
    /\ finished = {}
    /\ locations = <<>>
    /\ drivers = [d \in DriverIds |->
                    [exists |-> TRUE, isActive |-> FALSE,
                     currentRoute |-> IF d = "d1" THEN RouteOrder[1]
                                      ELSE RouteOrder[2]]]
    /\ delivered = [s \in Sockets |-> <<>>]
    /\ routes = [r \in RouteIds |->
                    IF r = RouteOrder[1]
                    THEN [exists |-> TRUE, driver |-> "d1", status |-> "pending",
                          stops |-> NewStops(MaxStops)]
                    ELSE [exists |-> TRUE, driver |-> "d2", status |-> "pending",
                          stops |-> NewStops(1)]]
    /\ creating = {}
    /\ issued = 0
    /\ requests = {}
    /\ outcomes = {}

FrameIndexes == {Idx(i) : i \in 0..(MaxStops - 1)}

FrameNext ==
    \/ Tick
    \/ \E s \in Sockets, r \in RouteIds, i \in FrameIndexes :
        StopCompleted(s, r, i)
    \/ \E r \in RouteIds, i \in FrameIndexes : PostComplete(r, i)
    \/ \E q \in requests : LoadRoute(q)
    \/ \E q \in requests : RouteOrStopNotFound(q)
    \/ \E q \in requests : FindRouteFails(q)
    \/ \E q \in requests : SaveRoute(q)
    \/ \E q \in requests : SaveRouteFails(q)
    \/ \E q \in requests : EmitStopUpdate(q)
    \/ \E q \in requests : RespondSuccess(q)

FrameSpec == FrameInit /\ [][FrameNext]_vars

\* The save of a request that found stop k of route r succeeds in this step.
Saves(q, r, k) ==
    /\ q \in requests /\ q.pc = "save" /\ q.found
    /\ q.routeId = r /\ q.stopIndex = Idx(k - 1)
    /\ [q EXCEPT !.pc = "reply"] \in requests'

\* C19: a successful completion of (routeId, stopIndex) changes only the
\* status and completedAt of that one stop: the number and order of the
\* stops, the address, coordinates and sequence index of every stop, the
\* status and completedAt of the other stops, the route's own status and
\* driver, and every other route stay as they were.
C19_OnlyThatStopChanges ==
    [][\A r \in RouteIds :
          routes[r].exists =>
              /\ routes'[r].exists
              /\ routes'[r].driver = routes[r].driver
              /\ routes'[r].status = routes[r].status
              /\ Len(routes'[r].stops) = Len(routes[r].stops)
              /\ \A k \in 1..Len(routes[r].stops) :
                    LET old == routes[r].stops[k]
                        new == routes'[r].stops[k]
                    IN  /\ new.address = old.address
                        /\ new.lat = old.lat
                        /\ new.lng = old.lng
                        /\ new.sequenceOrder = old.sequenceOrder
                        /\ (new.status # old.status
                                \/ new.completedAt # old.completedAt) =>
                              \E q \in requests : Saves(q, r, k)]_vars

\* Stop 0 of route r1 has been completed by a request that returned
\* success; the other stop of r1 and the stop of r2 are still pending.
C19_Witness ==
    /\ routes[RouteOrder[1]].stops[1].status = "completed"
    /\ CompletionsOf(<<RouteOrder[1], 1>>) # {}
    /\ Len(routes[RouteOrder[1]].stops) > 1
    /\ \A k \in 2..Len(routes[RouteOrder[1]].stops) :
        routes[RouteOrder[1]].stops[k].status = "pending"
    /\ routes[RouteOrder[2]].stops[1].status = "pending"

\* ================================= README.md: the replacement handler
\* The 'location-update' handler README.md gives to replace the one of
\* server.js.  !x is true of 0, NaN and undefined; isNaN(x) of what
\* Number(x) turns into NaN.
Falsy(x) == x.k \in {"nan", "undef"} \/ (x.k = "num" /\ x.v = 0)
IsNaN(x) == x.k \in {"text", "nan", "undef"}
CoordinatesRejected(ev) ==
    Falsy(ev.lat) \/ Falsy(ev.lng) \/ IsNaN(ev.lat) \/ IsNaN(ev.lng)
ParseFloat(x) == IF x.k \in {"num", "str"} THEN Num(x.v) ELSE NaN
\* driverId.toString() throws a TypeError on undefined.
ToStringThrows(d) == d = NoId
Parsed(ev) ==
    [driverId |-> ev.driverId, lat |-> ParseFloat(ev.lat),
     lng |-> ParseFloat(ev.lng)]

\* The events sent to it: a latitude of 0, a longitude of 0, the bounds of
\* both ranges, string-encoded coordinates, a non-numeric latitude, and a
\* position without and with an empty driver id.
ReadmeEvents ==
    { Event("d1", Num(0), Num(20)), Event("d1", Num(10), Num(0)),
      Event("d1", Num(90), Num(180)), Event("d1", Num(-90), Num(-180)),
      Event("d1", Str(10), Str(20)), Event("d1", Text, Num(20)),
      Event(NoId, Num(10), Num(20)), Event(EmptyId, Num(10), Num(20)) }

\* The coordinates pass the check: the handler builds the document from the
\* parsed values and calls save().
ReadmeLocationUpdate(s) ==
    /\ session[s] = "open"
    /\ chan[s] # <<>>
    /\ LET m == Head(chan[s])
           p == [m EXCEPT !.ev = Parsed(m.ev)]
       IN  /\ ~CoordinatesRejected(m.ev)
           /\ ~ToStringThrows(m.ev.driverId)
           /\ handlers' = handlers \cup
                {[id |-> m.id, sock |-> s, ev |-> p.ev, obs |-> m.obs,
                  doc |-> NewLocation(p, now), pc |-> "save"]}
    /\ chan' = [chan EXCEPT ![s] = Tail(@)]
    /\ UNCHANGED <<now, session, sent, finished, locations, drivers,
                   delivered,
                   routeVars>>

\* The check fails: console.error and return.
ReadmeInvalidCoordinates(s) ==
    /\ session[s] = "open"
    /\ chan[s] # <<>>
    /\ CoordinatesRejected(Head(chan[s]).ev)
    /\ chan' = [chan EXCEPT ![s] = Tail(@)]
    /\ Finish(Head(chan[s]), FALSE, FALSE, "coords")
    /\ UNCHANGED <<now, session, sent, handlers, locations, drivers,
                   delivered,
                   routeVars>>

\* driverId.toString() throws: catch block.
ReadmeToStringThrows(s) ==
    /\ session[s] = "open"
    /\ chan[s] # <<>>
    /\ ~CoordinatesRejected(Head(chan[s]).ev)
    /\ ToStringThrows(Head(chan[s]).ev.driverId)
    /\ chan' = [chan EXCEPT ![s] = Tail(@)]
    /\ Finish(Head(chan[s]), FALSE, FALSE, "throw")
    /\ UNCHANGED <<now, session, sent, handlers, locations, drivers,
                   delivered,
                   routeVars>>

ReadmeNext ==
    \/ Tick
    \/ \E s \in Sockets : Connect(s)
    \/ \E s \in Sockets : Disconnect(s)
    \/ \E s \in Sockets, e \in ReadmeEvents : Send(s, e)
    \/ \E s \in Sockets : ReadmeLocationUpdate(s)
    \/ \E s \in Sockets : ReadmeInvalidCoordinates(s)
    \/ \E s \in Sockets : ReadmeToStringThrows(s)
    \/ \E h \in handlers : SaveLocation(h)
    \/ \E h \in handlers : SaveLocationInvalid(h)
    \/ \E h \in handlers : SaveLocationFails(h)
    \/ \E h \in handlers : UpdateDriver(h)
    \/ \E h \in handlers : UpdateDriverFails(h)
    \/ \E h \in handlers : EmitDriverLocation(h)

ReadmeSpec == Init /\ [][ReadmeNext]_vars

\* C20: every position event with a non-empty agent id and finite
\* coordinates within range (the bounds, a latitude or longitude of 0 and
\* string-encoded numbers included) is accepted: unless a database call is
\* rejected, the handler stores a report with those numeric coordinates,
\* and the stored report's agent is visible in the snapshot.
C20_ValidEventAccepted ==
    /\ \A f \in finished : (f.valid /\ f.why # "store") => f.stored
    /\ \A h \in handlers :
        ValidPosition(h.ev) =>
            /\ h.doc.lat = Num(h.ev.lat.v)
            /\ h.doc.lng = Num(h.ev.lng.v)
    /\ \A f \in finished :
        f.stored =>
            \E doc \in Stored :
                /\ doc.id = f.id
                /\ \A snap \in LatestAll(locations) :
                    \E e \in snap : e._id = doc.driverId

\* ==================================================== isolation claims
\* The reports stored for agent d in the collection locs, and the entries
\* a snapshot of locs can hold for d.
DocsOf(locs, d) == {locs[i] : i \in {i \in 1..Len(locs) : locs[i].driverId = d}}
EntriesOf(locs, d) == {e \in UNION LatestAll(locs) : e._id = d}
\* The handler h takes a step: it moves on or returns.
Steps(h) == h \in handlers /\ h \notin handlers'
AgentIds == DriverIds \cup {NoId, EmptyId}

\* C21: a step of the ingestion of a position event of agent A, one that
\* fails as one that succeeds, leaves the stored reports and the snapshot
\* entry of every other agent B as they were, and leaves every handler of
\* B where it was, free to take its next step.
C21_OtherAgentsUntouched ==
    [][\A h \in handlers :
          Steps(h) =>
              \A b \in AgentIds \ {h.ev.driverId} :
                  /\ DocsOf(locations', b) = DocsOf(locations, b)
                  /\ EntriesOf(locations', b) = EntriesOf(locations, b)
                  /\ \A g \in handlers :
                        g.ev.driverId = b => g \in handlers']_vars

\* The reports of two agents are both stored and broadcast, the one sent
\* later stored first: the two handlers ran concurrently.
C21_Witness ==
    /\ Quiescent /\ NoFailure
    /\ Len(locations) = 2
    /\ locations[1].driverId # locations[2].driverId
    /\ locations[1].id > locations[2].id

\* The observer o has been handed the delta of every handler that emitted:
\* it was connected throughout and sent none of the events itself.
ReceivedAll(o) ==
    /\ session[o] = "open"
    /\ \A f \in finished :
        f.emitted => \E j \in 1..Len(delivered[o]) : delivered[o][j].id = f.id
\* The last 'driver-location' of agent d handed to o.
DeltasOf(o, d) ==
    {j \in 1..Len(delivered[o]) :
        delivered[o][j].type = "driver-location" /\ delivered[o][j].driverId = d}
LastDelta(o, d) ==
    delivered[o][CHOOSE j \in DeltasOf(o, d) : \A i \in DeltasOf(o, d) : i <= j]

\* No two stored reports of one agent have the same timestamp: the $sort
\* of the snapshot has one possible result.
DistinctTimestamps ==
    \A i, j \in 1..Len(locations) :
        (i # j /\ locations[i].driverId = locations[j].driverId) =>
            locations[i].timestamp # locations[j].timestamp

\* C22: once every 'location-update' handler has finished (none of them
\* failed, no two reports of an agent stored in the same instant), for
\* every agent the last 'driver-location' handed to an observer that
\* stayed connected carries the coordinates of the agent's entry in the
\* snapshot, however the handlers' steps interleaved.
C22_StreamAgreesWithSnapshot ==
    (Quiescent /\ NoFailure /\ DistinctTimestamps) =>
        \A o \in DOMAIN session :
            ReceivedAll(o) =>
                \A snap \in LatestAll(locations) :
                    \A e \in snap :
                        /\ DeltasOf(o, e._id) # {}
                        /\ CastNumber(LastDelta(o, e._id).lat) = e.lat
                        /\ CastNumber(LastDelta(o, e._id).lng) = e.lng

\* Two completion requests for different stops of one route that both
\* found their stop and returned success.
BothCompleted(o1, o2) ==
    /\ Succeeded(o1) /\ Succeeded(o2)
    /\ o1.found /\ o2.found
    /\ o1.routeId = o2.routeId
    /\ o1.stopIndex # o2.stopIndex

\* C23: no lost update between different stops of one route: when the
\* completion requests for two different stops i and j of a route have
\* both finished, run concurrently or not, both stops are stored as
\* completed with a completedAt.
C23_NoLostUpdate ==
    \A o1, o2 \in outcomes :
        BothCompleted(o1, o2) =>
            \A o \in {o1, o2} :
                LET stop == routes[o.routeId].stops[o.stopIndex.v + 1] IN
                    stop.status = "completed" /\ stop.completedAt # NoDate

\* Two such requests ran concurrently: each loaded the route while the
\* other's stop was still pending, and both stops are stored as completed.
C23_Witness ==
    \E o1, o2 \in outcomes :
        /\ BothCompleted(o1, o2)
        /\ o1.saw[o2.stopIndex.v + 1] = "pending"
        /\ o2.saw[o1.stopIndex.v + 1] = "pending"
        /\ \A o \in {o1, o2} :
            routes[o.routeId].stops[o.stopIndex.v + 1].status = "completed"

====
